---- MODULE Spec2Model ----
(***************************************************************************)
(* The IRC protocol engine: the line parser (IrcParser.parse) and the      *)
(* client session (IrcClient) that owns a WebSocket transport, registers,  *)
(* answers PING, renames itself on 433 and turns inbound lines into        *)
(* events.                                                                 *)
(*                                                                         *)
(* A JavaScript string is a sequence of one-character strings.  The value  *)
(* `undefined' is the one-element sequence Undefined, which no string      *)
(* equals because its element is longer than one character.                *)
(***************************************************************************)
EXTENDS Integers, Sequences, FiniteSets, TLC

(* ------------------------------ bounds --------------------------------- *)

\* the longest line given to IrcParser.parse on its own
MaxLineLen == 7
\* the longest text given to IrcParser.parseContentToHtml
MaxTextLen == 4
\* on() may be called at most this many times in a behaviour
MaxListeners == 3
\* the longest origin of an inbound notification
MaxOriginLen == 3
\* connect() may be called at most this many times in a behaviour
MaxTransports == 2
\* a 433 reply is handled only while the nickname stays within this length
MaxNickLen == 5

(* --------------------------- string helpers ---------------------------- *)

Undefined == <<"undefined">>

\* `${v}` in a template literal
Str(v) == IF v = Undefined THEN <<"u","n","d","e","f","i","n","e","d">> ELSE v

\* JavaScript truthiness of a string-or-undefined value
Truthy(v) == v # Undefined /\ v # <<>>

CRLF == <<"\r","\n">>

Lower == <<"a","b","c","d","e","f","g","h","i","j","k","l","m","n","o","p","q","r","s","t","u","v","w","x","y","z">>
Upper == <<"A","B","C","D","E","F","G","H","I","J","K","L","M","N","O","P","Q","R","S","T","U","V","W","X","Y","Z">>

LowerSet == {Lower[i] : i \in 1..Len(Lower)}
UpperOf == [c \in LowerSet |-> Upper[CHOOSE i \in 1..Len(Lower) : Lower[i] = c]]

\* a parser that keeps the letter case of the command
toUpperCase_keepCase(s) == s

\* String.prototype.toUpperCase, one character at a time
toUpperCase(s) == [i \in 1..Len(s) |-> IF s[i] \in LowerSet THEN UpperOf[s[i]] ELSE s[i]]

\* p occurs in s at position i
At(s, p, i) == \A k \in 1..Len(p) : s[i + k - 1] = p[k]

\* s.startsWith(p)
startsWith(s, p) == Len(s) >= Len(p) /\ At(s, p, 1)

\* the first position from i on where p occurs in s, 0 when there is none
RECURSIVE scan(_, _, _)
scan(s, p, i) ==
  IF i + Len(p) - 1 > Len(s) THEN 0
  ELSE IF At(s, p, i) THEN i
  ELSE scan(s, p, i + 1)

\* the last position where p occurs in s instead of the first
indexOf_last(s, p) ==
  LET hits == {i \in 1..(Len(s) - Len(p) + 1) : At(s, p, i)}
  IN  IF hits = {} THEN 0 ELSE CHOOSE i \in hits : \A j \in hits : j <= i

\* s.indexOf(p), 1-based; 0 when p does not occur (JavaScript's -1)
indexOf(s, p) == scan(s, p, 1)

\* s.substring(from) with a 1-based from
From(s, i) == SubSeq(s, i, Len(s))

\* s.split(sep) for a non-empty separator
RECURSIVE split(_, _)
split(s, sep) ==
  LET n == indexOf(s, sep)
  IN  IF n = 0 THEN <<s>>
      ELSE <<SubSeq(s, 1, n - 1)>> \o split(From(s, n + Len(sep)), sep)

(* ------------------------------ IrcParser ------------------------------ *)

\* a params loop in which a token that begins with ':' ends at the next
\* space like any other token
RECURSIVE parseParams_trailingToken(_)
parseParams_trailingToken(tempLine) ==
  IF tempLine = <<>> THEN <<>>
  ELSE LET t == IF startsWith(tempLine, <<":">>) THEN From(tempLine, 2)
                ELSE tempLine
           nextSpace == indexOf(t, <<" ">>)
       IN  IF nextSpace # 0
           THEN <<SubSeq(t, 1, nextSpace - 1)>>
                  \o parseParams_trailingToken(From(t, nextSpace + 1))
           ELSE <<t>>

\* a params loop that drops the empty tokens of a run of spaces
RECURSIVE parseParams_coalesce(_)
parseParams_coalesce(tempLine) ==
  IF tempLine = <<>> THEN <<>>
  ELSE IF startsWith(tempLine, <<":">>) THEN <<From(tempLine, 2)>>
  ELSE LET nextSpace == indexOf(tempLine, <<" ">>)
       IN  IF nextSpace = 1 THEN parseParams_coalesce(From(tempLine, 2))
           ELSE IF nextSpace # 0
           THEN <<SubSeq(tempLine, 1, nextSpace - 1)>>
                  \o parseParams_coalesce(From(tempLine, nextSpace + 1))
           ELSE <<tempLine>>

\* step 3 of parse: the while loop over tempLine
RECURSIVE parseParams(_)
parseParams(tempLine) ==
  IF tempLine = <<>> THEN <<>>
  ELSE IF startsWith(tempLine, <<":">>) THEN <<From(tempLine, 2)>>
  ELSE LET nextSpace == indexOf(tempLine, <<" ">>)
       IN  IF nextSpace # 0
           THEN <<SubSeq(tempLine, 1, nextSpace - 1)>>
                  \o parseParams(From(tempLine, nextSpace + 1))
           ELSE <<tempLine>>

\* a parse whose prefix is left undefined when the line has none
parse_undefinedPrefix(line) ==
  LET spaceIdx0 == indexOf(line, <<" ">>)
      hasPrefix == startsWith(line, <<":">>) /\ spaceIdx0 # 0
      prefix    == IF hasPrefix THEN SubSeq(line, 2, spaceIdx0 - 1) ELSE Undefined
      tempLine1 == IF hasPrefix THEN From(line, spaceIdx0 + 1) ELSE line
      spaceIdx  == indexOf(tempLine1, <<" ">>)
      command   == IF spaceIdx # 0
                   THEN toUpperCase(SubSeq(tempLine1, 1, spaceIdx - 1))
                   ELSE toUpperCase(tempLine1)
      tempLine2 == IF spaceIdx # 0 THEN From(tempLine1, spaceIdx + 1) ELSE <<>>
  IN  [prefix |-> prefix, command |-> command, params |-> parseParams(tempLine2)]

parse(line) ==
  LET spaceIdx0 == indexOf(line, <<" ">>)
      hasPrefix == startsWith(line, <<":">>) /\ spaceIdx0 # 0
      prefix    == IF hasPrefix THEN SubSeq(line, 2, spaceIdx0 - 1) ELSE <<>>
      tempLine1 == IF hasPrefix THEN From(line, spaceIdx0 + 1) ELSE line
      spaceIdx  == indexOf(tempLine1, <<" ">>)
      command   == IF spaceIdx # 0
                   THEN toUpperCase(SubSeq(tempLine1, 1, spaceIdx - 1))
                   ELSE toUpperCase(tempLine1)
      tempLine2 == IF spaceIdx # 0 THEN From(tempLine1, spaceIdx + 1) ELSE <<>>
  IN  [prefix |-> prefix, command |-> command, params |-> parseParams(tempLine2)]

(* -------------------------------- state -------------------------------- *)

(* ------------------- IrcParser.parseContentToHtml --------------------- *)

\* the four control codes, each one character of the text
x02 == "\\x02"
x1D == "\\x1D"
x1F == "\\x1F"
x0F == "\\x0F"

\* text.replace(/c/g, r)
RECURSIVE replace(_, _, _)
replace(text, c, r) ==
  IF text = <<>> THEN <<>>
  ELSE (IF Head(text) = c THEN r ELSE <<Head(text)>>) \o replace(Tail(text), c, r)

\* an escape that lets the double quote through
escapeChar_rawQuote(c) ==
  CASE c = "&" -> <<"&","a","m","p",";">>
    [] c = "<" -> <<"&","l","t",";">>
    [] c = ">" -> <<"&","g","t",";">>
    [] c = "'" -> <<"&","#","0","3","9",";">>
    [] OTHER   -> <<c>>

\* the else branch of the main loop: escape this single char
escapeChar(c) ==
  CASE c = "&"  -> <<"&","a","m","p",";">>
    [] c = "<"  -> <<"&","l","t",";">>
    [] c = ">"  -> <<"&","g","t",";">>
    [] c = "\"" -> <<"&","q","u","o","t",";">>
    [] c = "'"  -> <<"&","#","0","3","9",";">>
    [] OTHER    -> <<c>>

\* one iteration of the main loop on character c; s holds result and the
\* three toggles
renderChar(s, c) ==
  CASE c = x02 ->
         [s EXCEPT !.result = @ \o (IF s.boldOpen THEN <<"<","/","b",">">> ELSE <<"<","b",">">>),
                   !.boldOpen = ~@]
    [] c = x1D ->
         [s EXCEPT !.result = @ \o (IF s.italicOpen THEN <<"<","/","i",">">> ELSE <<"<","i",">">>),
                   !.italicOpen = ~@]
    [] c = x1F ->
         [s EXCEPT !.result = @ \o (IF s.underlineOpen THEN <<"<","/","u",">">> ELSE <<"<","u",">">>),
                   !.underlineOpen = ~@]
    [] c = x0F ->
         [result |-> s.result \o (IF s.boldOpen THEN <<"<","/","b",">">> ELSE <<>>)
                              \o (IF s.italicOpen THEN <<"<","/","i",">">> ELSE <<>>)
                              \o (IF s.underlineOpen THEN <<"<","/","u",">">> ELSE <<>>),
          boldOpen |-> FALSE, italicOpen |-> FALSE, underlineOpen |-> FALSE]
    [] OTHER -> [s EXCEPT !.result = @ \o escapeChar(c)]

\* the main loop from character i of text on
RECURSIVE renderFrom(_, _, _)
renderFrom(s, text, i) ==
  IF i > Len(text) THEN s ELSE renderFrom(renderChar(s, text[i]), text, i + 1)

\* a closing of the remaining tags in the order underline, italic, bold
closeRemaining_reversed(s) ==
  s.result \o (IF s.underlineOpen THEN <<"<","/","u",">">> ELSE <<>>)
           \o (IF s.italicOpen THEN <<"<","/","i",">">> ELSE <<>>)
           \o (IF s.boldOpen THEN <<"<","/","b",">">> ELSE <<>>)

\* "Close any remaining"
closeRemaining(s) ==
  s.result \o (IF s.boldOpen THEN <<"<","/","b",">">> ELSE <<>>)
           \o (IF s.italicOpen THEN <<"<","/","i",">">> ELSE <<>>)
           \o (IF s.underlineOpen THEN <<"<","/","u",">">> ELSE <<>>)

\* a rendering that appends to the escaped copy instead of starting from ''
parseContentToHtml_keepsEscaped(text) ==
  LET escaped == replace(replace(replace(replace(replace(text,
                   "&", <<"&","a","m","p",";">>), "<", <<"&","l","t",";">>), ">", <<"&","g","t",";">>),
                   "\"", <<"&","q","u","o","t",";">>), "'", <<"&","#","0","3","9",";">>)
      start == [result |-> escaped, boldOpen |-> FALSE, italicOpen |-> FALSE,
                underlineOpen |-> FALSE]
  IN  closeRemaining(renderFrom(start, text, 1))

\* `escaped' and `chars' are computed and only feed a loop with an empty
\* body; result is reset to '' before the main loop
parseContentToHtml(text) ==
  LET escaped == replace(replace(replace(replace(replace(text,
                   "&", <<"&","a","m","p",";">>), "<", <<"&","l","t",";">>), ">", <<"&","g","t",";">>),
                   "\"", <<"&","q","u","o","t",";">>), "'", <<"&","#","0","3","9",";">>)
      chars == escaped
      start == [result |-> <<>>, boldOpen |-> FALSE, italicOpen |-> FALSE,
                underlineOpen |-> FALSE]
  IN  closeRemaining(renderFrom(start, text, 1))

VARIABLES
  config,       \* the IrcServerConfig given to the constructor
  currentNick,  \* IrcClient.currentNick
  ws,           \* IrcClient.ws: index into sockets, 0 for null
  sockets,      \* every WebSocket created by connect(), in creation order
  call,         \* the task that just ran: a call or a transport signal
  out,          \* its emit() and WebSocket.send() calls, in order
  threw,        \* TRUE when it ended with an uncaught exception
  ret,          \* what it returned: the result of a call of IrcParser
  listeners,    \* IrcClient.listeners: event name -> callbacks, in push order
  phase,        \* history: the connection phase told by the status events
  wire          \* history: the nickname of the last NICK written to this.ws

vars == <<config, currentNick, ws, sockets, call, out, threw, ret, listeners,
          phase, wire>>

\* the event names of the engine
EventNames ==
  {"status", "error", "registered", "join", "part", "quit", "kick", "mode",
   "names", "topic", "privmsg", "raw", "system"}

\* a call cb(data) of a registered callback
Callback(cb, data) == [kind |-> "callback", cb |-> cb, data |-> data]

\* an on() that puts the callback in front of the earlier ones
on_unshift(ls, event, cb) ==
  LET ls1 == IF ls[event] = Undefined THEN [ls EXCEPT ![event] = <<>>] ELSE ls
  IN  [ls1 EXCEPT ![event] = <<cb>> \o @]

\* on(event, callback)
on(ls, event, cb) ==
  LET ls1 == IF ls[event] = Undefined THEN [ls EXCEPT ![event] = <<>>] ELSE ls
  IN  [ls1 EXCEPT ![event] = Append(@, cb)]

\* this.listeners[event].forEach((cb) => cb(data)), when there is a list
forEachListener(ls, event, data) ==
  IF ls[event] # Undefined
  THEN [i \in 1..Len(ls[event]) |-> Callback(ls[event][i], data)]
  ELSE <<>>

\* an emit(event, data) call
Emit(event, data) == [kind |-> "emit", event |-> event, data |-> data]
\* a WebSocket.send(data) call on socket `to'
Write(to, data) == [kind |-> "write", to |-> to, data |-> data]

\* the phase after the events and writes of a task: that of its last status
\* event, the phase before when it emitted none
PhaseAfter(before, events) ==
  LET IsStatus(e) == e.kind = "emit" /\ e.event = "status"
      st == SelectSeq(events, IsStatus)
      last == st[Len(st)].data
  IN  IF st = <<>> THEN before
      ELSE IF last = <<"c","o","n","n","e","c","t","i","n","g">> THEN "Connecting"
      ELSE IF last = <<"c","o","n","n","e","c","t","e","d">> THEN "Connected"
      ELSE IF last = <<"d","i","s","c","o","n","n","e","c","t","e","d">> THEN "Disconnected"
      ELSE before

\* the nickname on the wire of the handle after a task: every write goes to
\* this.ws, so it is that of the last NICK written, and none yet when the
\* handle has changed
RECURSIVE LastNick(_, _)
LastNick(before, events) ==
  IF events = <<>> THEN before
  ELSE LET e == Head(events)
           isNick == e.kind = "write" /\ startsWith(e.data, <<"N","I","C","K"," ">>)
           nick == SubSeq(e.data, 6, Len(e.data) - Len(CRLF))
       IN  LastNick(IF isNick THEN nick ELSE before, Tail(events))

WireAfter(before, st) ==
  IF st.ws # ws THEN Undefined ELSE LastNick(before, st.out)

\* what a running method has done so far
Start == [nick |-> currentNick, ws |-> ws, sockets |-> sockets,
          out |-> <<>>, threw |-> FALSE]

emit(st, event, data) ==
  [st EXCEPT !.out = Append(@, Emit(event, data))
                       \o forEachListener(listeners, event, data)]

\* a thrown TypeError: nothing after it runs
throw(st) == [st EXCEPT !.threw = TRUE]

\* msg.params[i] with JavaScript's 0-based index
Param(params, i) == IF i + 1 <= Len(params) THEN params[i + 1] ELSE Undefined

\* msg.params.slice(i)
slice(params, i) == IF i + 1 <= Len(params) THEN From(params, i + 1) ELSE <<>>

(* ------------------------------ IrcClient ------------------------------ *)

send(st, raw) ==
  IF st.ws # 0 /\ st.sockets[st.ws].readyState = "OPEN"
  THEN [st EXCEPT !.out = Append(@, Write(st.ws, raw \o CRLF))]
  ELSE st

\* a registration that goes back to the configured nickname
register_fromConfig(st) ==
  LET st1 == IF Truthy(config.password)
             THEN send(st, <<"P","A","S","S"," ">> \o Str(config.password))
             ELSE st
      st2 == send([st1 EXCEPT !.nick = config.nick], <<"N","I","C","K"," ">> \o config.nick)
  IN  send(st2, <<"U","S","E","R"," ">> \o config.username \o <<" ","0"," ","*"," ",":">> \o config.realname)

register(st) ==
  LET st1 == IF Truthy(config.password)
             THEN send(st, <<"P","A","S","S"," ">> \o Str(config.password))
             ELSE st
      st2 == send(st1, <<"N","I","C","K"," ">> \o st1.nick)
  IN  send(st2, <<"U","S","E","R"," ">> \o config.username \o <<" ","0"," ","*"," ",":">> \o config.realname)

\* a nickname taken to be the whole origin
getNickFromPrefix_wholePrefix(prefix) == prefix

getNickFromPrefix(prefix) == split(prefix, <<"!">>)[1]

join(st, channel, key) ==
  IF Truthy(key)
  THEN send(st, <<"J","O","I","N"," ">> \o Str(channel) \o <<" ">> \o Str(key))
  ELSE send(st, <<"J","O","I","N"," ">> \o Str(channel))

part(st, channel) == send(st, <<"P","A","R","T"," ">> \o Str(channel))

\* a sendMessage that signs the local event with the configured nickname
sendMessage_configSender(st, target, text) ==
  LET st1 == send(st, <<"P","R","I","V","M","S","G"," ">> \o Str(target) \o <<" ",":">> \o Str(text))
  IN  emit(st1, "privmsg",
           [target |-> target, sender |-> config.nick, content |-> text,
            isSelf |-> TRUE])

sendMessage(st, target, text) ==
  LET st1 == send(st, <<"P","R","I","V","M","S","G"," ">> \o Str(target) \o <<" ",":">> \o Str(text))
  IN  emit(st1, "privmsg",
           [target |-> target, sender |-> st1.nick, content |-> text,
            isSelf |-> TRUE])

\* a changeNick that waits for the server before it updates the nickname
changeNick_sendOnly(st, newNick) == send(st, <<"N","I","C","K"," ">> \o Str(newNick))

changeNick(st, newNick) ==
  [send(st, <<"N","I","C","K"," ">> \o Str(newNick)) EXCEPT !.nick = newNick]

\* a kick whose reason is not introduced by ':'
kick_noColon(st, channel, nick, reason) ==
  send(st, <<"K","I","C","K"," ">> \o Str(channel) \o <<" ">> \o Str(nick) \o <<" ">>
             \o (IF reason = Undefined THEN <<>> ELSE reason))

kick(st, channel, nick, reason) ==
  send(st, <<"K","I","C","K"," ">> \o Str(channel) \o <<" ">> \o Str(nick) \o <<" ",":">>
             \o (IF reason = Undefined THEN <<>> ELSE reason))

ban(st, channel, nick) ==
  send(st, <<"M","O","D","E"," ">> \o Str(channel) \o <<" ","+","b"," ">> \o Str(nick) \o <<"!","*","@","*">>)

unban(st, channel, hostmask) ==
  send(st, <<"M","O","D","E"," ">> \o Str(channel) \o <<" ","-","b"," ">> \o Str(hostmask))

op(st, channel, nick) ==
  send(st, <<"M","O","D","E"," ">> \o Str(channel) \o <<" ","+","o"," ">> \o Str(nick))

deop(st, channel, nick) ==
  send(st, <<"M","O","D","E"," ">> \o Str(channel) \o <<" ","-","o"," ">> \o Str(nick))

voice(st, channel, nick) ==
  send(st, <<"M","O","D","E"," ">> \o Str(channel) \o <<" ","+","v"," ">> \o Str(nick))

devoice(st, channel, nick) ==
  send(st, <<"M","O","D","E"," ">> \o Str(channel) \o <<" ","-","v"," ">> \o Str(nick))

setMode(st, channel, mode, param) ==
  LET p == IF Truthy(param) THEN <<" ">> \o param ELSE <<>>
  IN  send(st, <<"M","O","D","E"," ">> \o Str(channel) \o <<" ">> \o Str(mode) \o p)

\* auto-join that walks the configured channels from the last to the first
RECURSIVE joinAll_reversed(_, _)
joinAll_reversed(st, channels) ==
  IF channels = <<>> THEN st
  ELSE joinAll_reversed(join(st, channels[Len(channels)], Undefined),
                        SubSeq(channels, 1, Len(channels) - 1))

\* config.channels.forEach(ch => this.join(ch))
RECURSIVE joinAll(_, _)
joinAll(st, channels) ==
  IF channels = <<>> THEN st
  ELSE joinAll(join(st, Head(channels), Undefined), Tail(channels))

\* case '001': the welcome reply
case001(st) == joinAll(emit(st, "registered", <<>>), config.channels)

\* a 433 handler that always derives the new nickname from the configured one
case433_fromConfig(st) ==
  LET newNick == config.nick \o <<"_">>
      st1 == emit(st, "system", [oldNick |-> st.nick, newNick |-> newNick])
  IN  send([st1 EXCEPT !.nick = newNick], <<"N","I","C","K"," ">> \o newNick)

\* case '433': the nickname is in use.  The text of the system event is a
\* fixed sentence around the two nicknames, which are kept as its payload
case433(st) ==
  LET newNick == st.nick \o <<"_">>
      st1 == emit(st, "system", [oldNick |-> st.nick, newNick |-> newNick])
  IN  send([st1 EXCEPT !.nick = newNick], <<"N","I","C","K"," ">> \o newNick)

caseJOIN(st, msg) ==
  emit(st, "join", [nick |-> getNickFromPrefix(msg.prefix),
                    channel |-> Param(msg.params, 0)])

casePART(st, msg) ==
  emit(st, "part", [nick |-> getNickFromPrefix(msg.prefix),
                    channel |-> Param(msg.params, 0)])

caseQUIT(st, msg) ==
  emit(st, "quit", [nick |-> getNickFromPrefix(msg.prefix),
                    reason |-> Param(msg.params, 0)])

caseKICK(st, msg) ==
  emit(st, "kick", [channel |-> Param(msg.params, 0),
                    kickedNick |-> Param(msg.params, 1),
                    actor |-> getNickFromPrefix(msg.prefix),
                    reason |-> IF Truthy(Param(msg.params, 2))
                               THEN Param(msg.params, 2) ELSE <<>>])

\* a MODE case that reports user modes too
caseMODE_anyTarget(st, msg) ==
  IF Param(msg.params, 0) = Undefined THEN throw(st)
  ELSE emit(st, "mode", [channel |-> Param(msg.params, 0),
                         actor |-> getNickFromPrefix(msg.prefix),
                         modes |-> Param(msg.params, 1),
                         args |-> slice(msg.params, 2)])

\* case 'MODE': msg.params[0].startsWith throws when there is no parameter
caseMODE(st, msg) ==
  IF Param(msg.params, 0) = Undefined THEN throw(st)
  ELSE IF startsWith(Param(msg.params, 0), <<"#">>)
  THEN emit(st, "mode", [channel |-> Param(msg.params, 0),
                         actor |-> getNickFromPrefix(msg.prefix),
                         modes |-> Param(msg.params, 1),
                         args |-> slice(msg.params, 2)])
  ELSE st

casePRIVMSG(st, msg) ==
  emit(st, "privmsg", [target |-> Param(msg.params, 0),
                       sender |-> getNickFromPrefix(msg.prefix),
                       content |-> Param(msg.params, 1)])

\* case '353': msg.params[3].split throws when there are fewer than four
\* parameters
case353(st, msg) ==
  IF Param(msg.params, 3) = Undefined THEN throw(st)
  ELSE emit(st, "names", [channel |-> Param(msg.params, 2),
                          names |-> split(Param(msg.params, 3), <<" ">>)])

\* case '475': the text of the error event is a fixed sentence around the
\* channel, which is kept as its payload
case475(st, msg) ==
  emit(st, "error", [badKeyChannel |-> Str(Param(msg.params, 1))])

case332(st, msg) ==
  emit(st, "topic", [channel |-> Param(msg.params, 1),
                     topic |-> Param(msg.params, 2)])

handleMessage(st, msg, raw) ==
  IF msg.command = <<"P","I","N","G">>
  THEN send(st, <<"P","O","N","G"," ",":">> \o Str(Param(msg.params, 0)))
  ELSE
    LET st1 == emit(st, "raw", raw)
        c   == msg.command
    IN  IF c = <<"0","0","1">> THEN case001(st1)
        ELSE IF c = <<"4","3","3">> THEN case433(st1)
        ELSE IF c = <<"J","O","I","N">> THEN caseJOIN(st1, msg)
        ELSE IF c = <<"P","A","R","T">> THEN casePART(st1, msg)
        ELSE IF c = <<"Q","U","I","T">> THEN caseQUIT(st1, msg)
        ELSE IF c = <<"K","I","C","K">> THEN caseKICK(st1, msg)
        ELSE IF c = <<"M","O","D","E">> THEN caseMODE(st1, msg)
        ELSE IF c = <<"P","R","I","V","M","S","G">> THEN casePRIVMSG(st1, msg)
        ELSE IF c = <<"3","5","3">> THEN case353(st1, msg)
        ELSE IF c = <<"4","7","5">> THEN case475(st1, msg)
        ELSE IF c = <<"3","3","2">> THEN case332(st1, msg)
        ELSE st1

\* a loop that hands handleMessage the upper-cased line as the raw text
RECURSIVE forEachLine_upperRaw(_, _)
forEachLine_upperRaw(st, lines) ==
  IF lines = <<>> \/ st.threw THEN st
  ELSE LET line == Head(lines)
       IN  forEachLine_upperRaw(
             IF line = <<>> THEN st
             ELSE handleMessage(st, parse(line), toUpperCase(line)),
             Tail(lines))

\* lines.forEach(...) of onmessage; an exception leaves the loop
RECURSIVE forEachLine(_, _)
forEachLine(st, lines) ==
  IF lines = <<>> \/ st.threw THEN st
  ELSE LET line == Head(lines)
       IN  forEachLine(IF line = <<>> THEN st
                       ELSE handleMessage(st, parse(line), line),
                       Tail(lines))

(* ------------------------------- inputs -------------------------------- *)

\* with and without a password and auto-join channels; one host that
\* new WebSocket() rejects
Configs ==
  {[nick |-> <<"m","e">>, username |-> <<"u">>, realname |-> <<"R"," ","N">>,
    password |-> <<"p","w">>, channels |-> <<<<"#","a">>, <<"#","b">>>>, hostOk |-> TRUE],
   [nick |-> <<"m","e">>, username |-> <<"u">>, realname |-> <<"R"," ","N">>,
    password |-> Undefined, channels |-> <<>>, hostOk |-> TRUE],
   [nick |-> <<"m","e">>, username |-> <<"u">>, realname |-> <<"R"," ","N">>,
    password |-> Undefined, channels |-> <<<<"#","a">>>>, hostOk |-> FALSE]}

\* inbound lines, without their line delimiter
LinePing      == <<"P","I","N","G"," ",":","t","o","k">>
LinePingLower == <<"p","i","n","g"," ",":","t","o","k">>
LinePingBare  == <<"P","I","N","G">>
LinePingWords == <<"P","I","N","G"," ","a"," ","b">>
LineWelcome   == <<":","s"," ","0","0","1"," ","m","e"," ",":","h","i">>
LineNickInUse == <<":","s"," ","4","3","3"," ","*"," ","m","e"," ",":","u","s","e","d">>
LineJoin      == <<":","b","o","b","!","u","@","h"," ","J","O","I","N"," ","#","a">>
LinePart      == <<":","b","o","b","!","u","@","h"," ","P","A","R","T"," ","#","a"," ",":","b","y","e">>
LineQuit      == <<":","b","o","b","!","u","@","h"," ","Q","U","I","T"," ",":","g","o","n","e">>
LineKick      == <<":","o","p","!","u","@","h"," ","K","I","C","K"," ","#","a"," ","b","o","b">>
LineMode      == <<":","o","p","!","u","@","h"," ","M","O","D","E"," ","#","a"," ","+","o"," ","b","o","b">>
LineUserMode  == <<":","m","e"," ","M","O","D","E"," ","m","e"," ","+","i">>
LineModeBare  == <<"M","O","D","E">>
LineModeMany  == <<":","o","p","!","u","@","h"," ","M","O","D","E"," ","#","a"," ","+","o","v"," ","b","o","b"," ","a","l">>
LinePrivmsg   == <<":","b","o","b","!","u","@","h"," ","P","R","I","V","M","S","G"," ","#","a"," ",":","h","i"," ","a","l","l">>
LineNames     == <<":","s"," ","3","5","3"," ","m","e"," ","="," ","#","a"," ",":","@","o","p"," ","b","o","b">>
LineNamesBare == <<":","s"," ","3","5","3"," ","m","e"," ","="," ","#","a">>
LineBadKey    == <<":","s"," ","4","7","5"," ","m","e"," ","#","a"," ",":","b","a","d"," ","k","e","y">>
LineTopic     == <<":","s"," ","3","3","2"," ","m","e"," ","#","a"," ",":","t","h","e"," ","t","o","p","i","c">>
LineUnknown   == <<":","s"," ","3","7","2"," ","m","e"," ",":","m","o","t","d">>
LineNick      == <<":","m","e","!","u","@","h"," ","N","I","C","K"," ",":","z","e","d">>

Lines ==
  {LinePing, LinePingLower, LinePingBare, LinePingWords, LineWelcome, LineNickInUse, LineJoin,
   LinePart, LineQuit, LineKick, LineMode, LineUserMode, LineModeBare,
   LinePrivmsg, LineNames, LineNamesBare, LineBadKey, LineTopic, LineUnknown,
   LineNick, LineModeMany}

\* the line PING :tok delivered in two pieces
LinePingHead == <<"P","I","N","G"," ",":","t">>
LinePingTail == <<"o","k">>

\* the data of an inbound message event: one line, several lines, lines
\* with and without a final delimiter, empty segments, pieces of a line
Buffers ==
  Lines
  \cup {LinePingHead, LinePingTail \o CRLF,
        LinePing \o CRLF \o LineNickInUse,
        LineNickInUse \o CRLF \o LineNickInUse \o CRLF,
        LineNickInUse \o CRLF \o LineNickInUse \o CRLF \o LineNickInUse,
        LineModeBare \o CRLF \o LinePing,
        LineNamesBare \o CRLF \o LineNickInUse \o CRLF,
        LineWelcome \o CRLF \o LineJoin \o CRLF,
        LineJoin \o CRLF \o LinePing \o CRLF \o LineUnknown,
        LinePing \o CRLF \o CRLF \o LineNickInUse \o CRLF,
        CRLF \o LineJoin,
        <<>>, CRLF, CRLF \o CRLF}

Channels == {<<"#","a">>}
Keys     == {Undefined, <<"k">>}
Nicks    == {<<"b","o","b">>}
NewNicks == {<<"n","e","o">>}
Texts    == {<<"h","i"," ","a","l","l">>, <<"x","\r","\n","Q","U","I","T">>}
Reasons  == {Undefined, <<"g","e","t"," ","o","u","t">>}
Modes    == {<<"+","m">>}
ModeArgs == {Undefined, <<"x">>}
RawLines == {<<"W","H","O","I","S"," ","b","o","b">>}

(* ------------------------------- actions ------------------------------- *)

Sock(t) == sockets[t]

\* no task is running: the event loop is free to start one
Idle == [name |-> "idle", sock |-> 0, args |-> <<>>]

\* a task runs to completion from the event loop: its effects become the
\* state, and what it emitted and wrote is kept until the loop takes over
Return(st, name, t, args) ==
  /\ call = Idle
  /\ currentNick' = st.nick
  /\ ws' = st.ws
  /\ sockets' = st.sockets
  /\ out' = st.out
  /\ threw' = st.threw
  /\ call' = [name |-> name, sock |-> t, args |-> args]
  /\ ret' = Undefined
  /\ phase' = PhaseAfter(phase, st.out)
  /\ wire' = WireAfter(wire, st)
  /\ UNCHANGED <<config, listeners>>

Init ==
  /\ config \in Configs
  /\ currentNick = config.nick
  /\ ws = 0
  /\ sockets = <<>>
  /\ call = Idle
  /\ out = <<>>
  /\ threw = FALSE
  /\ ret = Undefined
  /\ listeners = [e \in EventNames |-> Undefined]
  /\ phase = "Idle"
  /\ wire = Undefined

\* new WebSocket(url): a socket in state CONNECTING whose close signal is
\* still to come
NewSocket == [readyState |-> "CONNECTING", closeFired |-> FALSE]

\* connect(): new WebSocket(url) throws on a malformed url, which the catch
\* block reports; this.ws is assigned only when the constructor returned
connect ==
  /\ Len(sockets) < MaxTransports
  /\ LET st1 == emit(Start, "status", <<"c","o","n","n","e","c","t","i","n","g">>)
         st2 == IF config.hostOk
                THEN [st1 EXCEPT !.sockets = Append(@, NewSocket),
                                 !.ws = Len(sockets) + 1]
                ELSE emit(st1, "error", <<"C","o","n","n","e","c","t","i","o","n"," ","F","a","i","l","e","d">>)
     IN  Return(st2, "connect", 0, <<>>)

\* WebSocket.close(): CONNECTING and OPEN become CLOSING
close(s) ==
  IF s.readyState \in {"CONNECTING", "OPEN"}
  THEN [s EXCEPT !.readyState = "CLOSING"]
  ELSE s

\* a disconnect that reports the status itself
disconnect_emitsStatus ==
  LET st1 == IF ws # 0
             THEN [send(Start, <<"Q","U","I","T"," ",":","W","e","b"," ","C","l","i","e","n","t"," ","D","i","s","c","o","n","n","e","c","t","i","n","g">>)
                     EXCEPT !.sockets[ws] = close(@)]
             ELSE Start
  IN  Return(emit(st1, "status", <<"d","i","s","c","o","n","n","e","c","t","e","d">>), "disconnect", 0, <<>>)

disconnect ==
  LET st1 == IF ws # 0
             THEN [send(Start, <<"Q","U","I","T"," ",":","W","e","b"," ","C","l","i","e","n","t"," ","D","i","s","c","o","n","n","e","c","t","i","n","g">>)
                     EXCEPT !.sockets[ws] = close(@)]
             ELSE Start
  IN  Return(st1, "disconnect", 0, <<>>)

\* the open signal of socket t: the socket is OPEN when the handler runs
onopen(t) ==
  /\ Sock(t).readyState = "CONNECTING"
  /\ LET st0 == [Start EXCEPT !.sockets[t].readyState = "OPEN"]
         st1 == emit(st0, "status", <<"c","o","n","n","e","c","t","e","d">>)
     IN  Return(register(st1), "onopen", t, <<>>)

\* a message event of socket t; the platform delivers messages only while
\* the socket is OPEN
onmessage(t, data) ==
  /\ call = Idle
  /\ Sock(t).readyState = "OPEN"
  /\ LET st == forEachLine(Start, split(data, CRLF))
     IN  /\ Len(st.nick) <= MaxNickLen
         /\ Return(st, "onmessage", t, <<data>>)

\* the error signal of socket t: the platform fires it when the connection
\* fails, with the socket already CLOSED and its close signal to follow
onerror(t) ==
  /\ ~Sock(t).closeFired
  /\ Sock(t).readyState # "CLOSED"
  /\ LET st0 == [Start EXCEPT !.sockets[t].readyState = "CLOSED"]
     IN  Return(emit(st0, "error", <<"W","e","b","S","o","c","k","e","t"," ","E","r","r","o","r">>), "onerror", t, <<>>)

\* a close handler that reconnects by itself
onclose_reconnects(t) ==
  /\ ~Sock(t).closeFired
  /\ Len(sockets) < MaxTransports
  /\ LET st0 == [Start EXCEPT !.sockets[t] =
                    [readyState |-> "CLOSED", closeFired |-> TRUE]]
         st1 == emit(st0, "status", <<"d","i","s","c","o","n","n","e","c","t","e","d">>)
     IN  Return([st1 EXCEPT !.sockets = Append(@, NewSocket),
                            !.ws = Len(sockets) + 1], "onclose", t, <<>>)

\* a close handler that reports the status and keeps the handle
onclose_keepsHandle(t) ==
  /\ ~Sock(t).closeFired
  /\ LET st0 == [Start EXCEPT !.sockets[t] =
                    [readyState |-> "CLOSED", closeFired |-> TRUE]]
     IN  Return(emit(st0, "status", <<"d","i","s","c","o","n","n","e","c","t","e","d">>), "onclose", t, <<>>)

\* the close signal of socket t, fired once per socket
onclose(t) ==
  /\ ~Sock(t).closeFired
  /\ LET st0 == [Start EXCEPT !.sockets[t] =
                    [readyState |-> "CLOSED", closeFired |-> TRUE]]
         st1 == emit(st0, "status", <<"d","i","s","c","o","n","n","e","c","t","e","d">>)
     IN  Return([st1 EXCEPT !.ws = 0], "onclose", t, <<>>)

\* calls of the outbound builders by the user interface
CallSend ==
  \E raw \in RawLines : Return(send(Start, raw), "send", 0, <<raw>>)

CallJoin ==
  \E ch \in Channels, key \in Keys :
    Return(join(Start, ch, key), "join", 0, <<ch, key>>)

CallPart ==
  \E ch \in Channels : Return(part(Start, ch), "part", 0, <<ch>>)

CallSendMessage ==
  \E target \in Channels, text \in Texts :
    Return(sendMessage(Start, target, text), "sendMessage", 0, <<target, text>>)

CallChangeNick ==
  \E n \in NewNicks : Return(changeNick(Start, n), "changeNick", 0, <<n>>)

CallKick ==
  \E ch \in Channels, n \in Nicks, reason \in Reasons :
    Return(kick(Start, ch, n, reason), "kick", 0, <<ch, n, reason>>)

CallBan ==
  \E ch \in Channels, n \in Nicks : Return(ban(Start, ch, n), "ban", 0, <<ch, n>>)

CallUnban ==
  \E ch \in Channels, n \in Nicks :
    Return(unban(Start, ch, n \o <<"!","*","@","*">>), "unban", 0, <<ch, n \o <<"!","*","@","*">>>>)

CallOp ==
  \E ch \in Channels, n \in Nicks : Return(op(Start, ch, n), "op", 0, <<ch, n>>)

CallDeop ==
  \E ch \in Channels, n \in Nicks : Return(deop(Start, ch, n), "deop", 0, <<ch, n>>)

CallVoice ==
  \E ch \in Channels, n \in Nicks : Return(voice(Start, ch, n), "voice", 0, <<ch, n>>)

CallDevoice ==
  \E ch \in Channels, n \in Nicks :
    Return(devoice(Start, ch, n), "devoice", 0, <<ch, n>>)

CallSetMode ==
  \E ch \in Channels, m \in Modes, a \in ModeArgs :
    Return(setMode(Start, ch, m, a), "setMode", 0, <<ch, m, a>>)

\* the task is over; JavaScript runs handlers one at a time, so the next
\* call or signal starts only now
EventLoop ==
  /\ call # Idle
  /\ call' = Idle
  /\ out' = <<>>
  /\ threw' = FALSE
  /\ ret' = Undefined
  /\ UNCHANGED <<config, currentNick, ws, sockets, listeners, phase, wire>>

\* the signals of the sockets created so far
Open == \E t \in 1..Len(sockets) : onopen(t)
Message == \E t \in 1..Len(sockets), data \in Buffers : onmessage(t, data)
Error == \E t \in 1..Len(sockets) : onerror(t)
Close == \E t \in 1..Len(sockets) : onclose(t)

Next ==
  \/ EventLoop
  \/ connect
  \/ disconnect
  \/ Open
  \/ Message
  \/ Error
  \/ Close
  \/ CallSend
  \/ CallJoin
  \/ CallPart
  \/ CallSendMessage
  \/ CallChangeNick
  \/ CallKick
  \/ CallBan
  \/ CallUnban
  \/ CallOp
  \/ CallDeop
  \/ CallVoice
  \/ CallDevoice
  \/ CallSetMode

Spec == Init /\ [][Next]_vars

(* ------------------------- the event interface ------------------------ *)

\* the event names listeners are registered for and events are emitted with
OnEvents == {"raw", "status"}
\* the callbacks of the caller
Callbacks == {"f", "g"}
\* the payloads of an emit() of the caller
Payloads == {<<"x">>, <<"y">>}

\* the number of callbacks registered so far
Registered(ls) ==
  LET RECURSIVE sum(_)
      sum(E) == IF E = {} THEN 0
                ELSE LET e == CHOOSE e \in E : TRUE
                     IN  (IF ls[e] = Undefined THEN 0 ELSE Len(ls[e])) + sum(E \ {e})
  IN  sum(EventNames)

\* a session whose caller registers listeners and emits
InitEvents ==
  /\ Init
  /\ config.hostOk
  /\ config.password = Undefined

CallOn ==
  /\ call = Idle
  /\ Registered(listeners) < MaxListeners
  /\ \E event \in OnEvents, cb \in Callbacks :
       /\ listeners' = on(listeners, event, cb)
       /\ call' = [name |-> "on", sock |-> 0, args |-> <<event, cb>>]
  /\ out' = <<>>
  /\ threw' = FALSE
  /\ ret' = Undefined
  /\ UNCHANGED <<config, currentNick, ws, sockets, phase, wire>>

CallEmit ==
  \E event \in OnEvents \cup {"error"}, data \in Payloads :
    Return(emit(Start, event, data), "emit", 0, <<event, data>>)

NextEvents ==
  \/ EventLoop
  \/ CallOn
  \/ CallEmit

SpecEvents == InitEvents /\ [][NextEvents]_vars

(* ------------------- the codec functions on their own ------------------ *)

\* every string over A of length at most n
StringsUpTo(A, n) == UNION {[1..k -> A] : k \in 0..n}

\* the lines given to parse: every string of colons, spaces and two letters
LineChars == {":", " ", "a", "b"}
ParseInputs == StringsUpTo(LineChars, MaxLineLen)

\* the leading arguments of a builder: no space, no ':' in front
LeadingArgs == {<<"#","a">>, <<"b",":","c">>}
\* the final argument: empty, one word, several words, with ':' and spaces
\* anywhere
TrailingArgs ==
  {<<>>, <<"h","i">>, <<"h","i"," ","a","l","l">>, <<":","h","i">>, <<" ","h","i">>, <<"h","i"," ">>, <<"a"," "," ","b">>, <<"a"," ",":","b"," ","c">>, <<":">>, <<" ">>}

\* the texts given to parseContentToHtml: control codes, the five unsafe
\* characters and two plain ones
ControlCodes == {x02, x1D, x1F, x0F}
UnsafeChars  == {"&", "<", ">", "\"", "'"}
TextChars    == ControlCodes \cup UnsafeChars \cup {"a", "b"}
RenderInputs == StringsUpTo(TextChars, MaxTextLen)

\* a session that only uses the codec: connect() was called and the
\* transport is open
InitCodec ==
  /\ config \in {c \in Configs : c.hostOk /\ c.password = Undefined}
  /\ currentNick = config.nick
  /\ sockets = <<[readyState |-> "OPEN", closeFired |-> FALSE]>>
  /\ ws = 1
  /\ call = Idle
  /\ out = <<>>
  /\ threw = FALSE
  /\ ret = Undefined
  /\ listeners = [e \in EventNames |-> Undefined]
  /\ phase = "Connected"
  /\ wire = config.nick

\* the line a builder wrote, without the delimiter send() appended
WrittenLine(st) == SubSeq(st.out[1].data, 1, Len(st.out[1].data) - Len(CRLF))

\* kick(channel, nick, reason), and parse of the line it wrote
KickThenParse ==
  /\ call = Idle
  /\ \E ch \in LeadingArgs, n \in LeadingArgs, reason \in TrailingArgs \cup {Undefined} :
       LET st == kick(Start, ch, n, reason)
       IN  /\ call' = [name |-> "kick", sock |-> 0, args |-> <<ch, n, reason>>]
           /\ out' = st.out
           /\ threw' = st.threw
           /\ ret' = parse(WrittenLine(st))
  /\ UNCHANGED <<config, currentNick, ws, sockets, listeners, phase, wire>>

\* sendMessage(target, text), and parse of the line it wrote
SendMessageThenParse ==
  /\ call = Idle
  /\ \E target \in LeadingArgs, text \in TrailingArgs :
       LET st == sendMessage(Start, target, text)
       IN  /\ call' = [name |-> "sendMessage", sock |-> 0, args |-> <<target, text>>]
           /\ out' = st.out
           /\ threw' = st.threw
           /\ ret' = parse(WrittenLine(st))
  /\ UNCHANGED <<config, currentNick, ws, sockets, listeners, phase, wire>>

\* IrcParser.parse(line)
ApplyParse ==
  /\ call = Idle
  /\ \E line \in ParseInputs :
       /\ call' = [name |-> "parse", sock |-> 0, args |-> <<line>>]
       /\ ret' = parse(line)
  /\ out' = <<>>
  /\ threw' = FALSE
  /\ UNCHANGED <<config, currentNick, ws, sockets, listeners, phase, wire>>

\* IrcParser.parseContentToHtml(text)
ApplyRender ==
  /\ call = Idle
  /\ \E text \in RenderInputs :
       /\ call' = [name |-> "parseContentToHtml", sock |-> 0, args |-> <<text>>]
       /\ ret' = parseContentToHtml(text)
  /\ out' = <<>>
  /\ threw' = FALSE
  /\ UNCHANGED <<config, currentNick, ws, sockets, listeners, phase, wire>>

\* the origins of inbound notifications: with no, one and several '!'
Origins == StringsUpTo({"!", "a", "b"}, MaxOriginLen)
\* the notifications that name an actor
ActorVerbs == {<<"J","O","I","N">>, <<"P","A","R","T">>, <<"Q","U","I","T">>, <<"K","I","C","K">>, <<"M","O","D","E">>, <<"P","R","I","V","M","S","G">>}
NotificationLine(origin, verb) == <<":">> \o origin \o <<" ">> \o verb \o <<" ","#","a"," ","x">>
LineJoinNoOrigin == <<"J","O","I","N"," ","#","a"," ","x">>

\* a message event with one notification
Notification ==
  \/ \E origin \in Origins, verb \in ActorVerbs :
       onmessage(1, NotificationLine(origin, verb))
  \/ onmessage(1, LineJoinNoOrigin)

NextCodec ==
  \/ EventLoop
  \/ Notification
  \/ ApplyParse
  \/ ApplyRender
  \/ KickThenParse
  \/ SendMessageThenParse

SpecCodec == InitCodec /\ [][NextCodec]_vars

(* ------------------------------ properties ----------------------------- *)

\* the session has an open transport
Connected == ws # 0 /\ sockets[ws].readyState = "OPEN"

IsWrite(e) == e.kind = "write"
IsEvent(e, name) == e.kind = "emit" /\ e.event = name
IsRaw(e) == IsEvent(e, "raw")
IsSystem(e) == IsEvent(e, "system")
IsRegistered(e) == IsEvent(e, "registered")
IsNickWrite(e) == IsWrite(e) /\ startsWith(e.data, <<"N","I","C","K"," ">>)
IsPong(e) == IsWrite(e) /\ startsWith(e.data, <<"P","O","N","G"," ",":">>)
\* what shows that a line was dispatched: its raw event, or the PONG that
\* answers a PING
IsMark(e) == IsRaw(e) \/ IsPong(e)
NotRaw(e) == ~IsRaw(e)

\* the lines of a buffer, found from the positions of its delimiters
DelimAt(d) == {i \in 1..(Len(d) - 1) : d[i] = "\r" /\ d[i + 1] = "\n"}
SegEnd(d, s) ==
  LET later == {i \in DelimAt(d) : i >= s}
  IN  IF later = {} THEN Len(d)
      ELSE (CHOOSE i \in later : \A j \in later : i <= j) - 1
LineStarts(d) == {s \in {1} \cup {i + 2 : i \in DelimAt(d)} : SegEnd(d, s) >= s}
LinesOf(d) ==
  [k \in 1..Cardinality(LineStarts(d)) |->
     LET s == CHOOSE x \in LineStarts(d) :
                Cardinality({y \in LineStarts(d) : y < x}) = k - 1
     IN  SubSeq(d, s, SegEnd(d, s))]

\* the command of the line is PING in some letter case
IsPingLine(l) ==
  /\ Len(l) >= 4
  /\ l[1] \in {"P", "p"} /\ l[2] \in {"I", "i"}
  /\ l[3] \in {"N", "n"} /\ l[4] \in {"G", "g"}
  /\ (Len(l) = 4 \/ l[5] = " ")

\* C1: no inbound line makes the session fail: dispatch of a buffer ends
\* without an exception and every non-empty line of the buffer is dispatched.
C1_NoLineFails ==
  call.name = "onmessage" =>
    /\ ~threw
    /\ Connected =>
         Len(SelectSeq(out, IsMark)) = Len(LinesOf(call.args[1]))

\* the registration sequence as written to socket t
Registration(t) ==
  (IF Truthy(config.password)
   THEN <<Write(t, <<"P","A","S","S"," ">> \o config.password \o CRLF)>> ELSE <<>>)
  \o <<Write(t, <<"N","I","C","K"," ">> \o currentNick \o CRLF),
       Write(t, <<"U","S","E","R"," ">> \o config.username \o <<" ","0"," ","*"," ",":">>
                  \o config.realname \o CRLF)>>

\* C2: on each transport-open signal the engine emits status 'connected' and
\* writes PASS (when configured), NICK, USER to that transport, in this order
\* and each once.
C2_OpenRegisters ==
  call.name = "onopen" =>
    out = <<Emit("status", <<"c","o","n","n","e","c","t","e","d">>)>> \o Registration(call.sock)

\* PING lines with the token they carry
PingCases ==
  {<<LinePing, <<"t","o","k">>>>, <<LinePingLower, <<"t","o","k">>>>, <<LinePingWords, <<"a">>>>}

\* C3: while connected, a PING line in any letter case is answered by exactly
\* one write 'PONG :<token>' CRLF with the same token, emits no event, not
\* even a raw event, changes no session state, and is answered before
\* anything else is done with the line.
C3_PingAnswered ==
  [][(call'.name = "onmessage" /\ Connected) =>
       /\ \A c \in PingCases :
            call'.args[1] \in {c[1], c[1] \o CRLF} =>
              /\ out' = <<Write(ws, <<"P","O","N","G"," ",":">> \o c[2] \o CRLF)>>
              /\ ~threw'
              /\ UNCHANGED <<config, currentNick, ws, sockets>>
       /\ call'.args[1] = LinePingBare =>
            /\ Len(out') = 1
            /\ IsPong(out'[1])
            /\ UNCHANGED <<config, currentNick, ws, sockets>>
       /\ \A i \in 1..Len(out') : IsRaw(out'[i]) => ~IsPingLine(out'[i].data)
       /\ Len(SelectSeq(out', IsPong))
            <= Cardinality({k \in 1..Len(LinesOf(call'.args[1])) :
                              IsPingLine(LinesOf(call'.args[1])[k])})
     ]_vars

C3_Witness ==
  /\ call.name = "onmessage"
  /\ call.args[1] = LinePingLower
  /\ out = <<Write(ws, <<"P","O","N","G"," ",":","t","o","k","\r","\n">>)>>

BuilderNames ==
  {"join", "part", "send", "sendMessage", "changeNick", "kick", "ban",
   "unban", "op", "deop", "voice", "devoice", "setMode"}

\* C4: while the session has no open transport, a call of any outbound
\* builder writes nothing, emits nothing and leaves currentNick unchanged.
C4_BuildersNoOpWhenClosed ==
  [][(call'.name \in BuilderNames /\ ~Connected) =>
       out' = <<>> /\ currentNick' = currentNick]_vars

\* C5: on a transport-error signal the engine emits an error event and the
\* error handling itself clears the transport handle.
C5_ErrorClearsHandle ==
  call.name = "onerror" =>
    /\ \E i \in 1..Len(out) : IsEvent(out[i], "error")
    /\ ws = 0

\* C6: on a transport-close signal the engine emits exactly one status
\* 'disconnected' event and its handle is empty afterwards; from then on no
\* call or signal writes anything or sets the handle, until connect().
C6_CloseClearsHandle ==
  [][/\ call'.name = "onclose" =>
          out' = <<Emit("status", <<"d","i","s","c","o","n","n","e","c","t","e","d">>)>> /\ ws' = 0
     /\ (ws = 0 /\ call'.name # "connect") =>
          ws' = 0 /\ SelectSeq(out', IsWrite) = <<>>
    ]_vars

C6_Witness ==
  /\ call.name = "onclose"
  /\ ws = 0
  /\ out = <<Emit("status", <<"d","i","s","c","o","n","n","e","c","t","e","d">>)>>
  /\ sockets[call.sock].closeFired

\* C7: disconnect() clears the transport handle before it returns.
C7_DisconnectClearsHandle == call.name = "disconnect" => ws = 0

\* k underscores
Underscores(k) == [j \in 1..k |-> "_"]

\* buffers made of k 433 replies and nothing else
NickInUseBuffers ==
  {<<LineNickInUse, 1>>,
   <<LineNickInUse \o CRLF \o LineNickInUse \o CRLF, 2>>,
   <<LineNickInUse \o CRLF \o LineNickInUse \o CRLF \o LineNickInUse, 3>>}

\* C8: while connected, each 433 reply appends one '_' to currentNick, emits
\* exactly one system event naming the old and the new nickname and writes
\* exactly one 'NICK <new nickname>'; k replies in a row give k underscores
\* and k NICK commands, and no NICK is written without a 433 reply.
C8_NickInUse ==
  [][(call'.name = "onmessage" /\ Connected) =>
       /\ \A b \in NickInUseBuffers :
            call'.args[1] = b[1] =>
              /\ currentNick' = currentNick \o Underscores(b[2])
              /\ SelectSeq(out', NotRaw) =
                   [j \in 1..(2 * b[2]) |->
                      LET i == (j + 1) \div 2
                      IN  IF j % 2 = 1
                          THEN Emit("system",
                                 [oldNick |-> currentNick \o Underscores(i - 1),
                                  newNick |-> currentNick \o Underscores(i)])
                          ELSE Write(ws, <<"N","I","C","K"," ">> \o currentNick
                                           \o Underscores(i) \o CRLF)]
       /\ Len(SelectSeq(out', IsNickWrite)) = Len(SelectSeq(out', IsSystem))
       /\ Len(SelectSeq(out', IsNickWrite))
            <= Cardinality({k \in 1..Len(LinesOf(call'.args[1])) :
                              LinesOf(call'.args[1])[k] = LineNickInUse})
     ]_vars

C8_Witness ==
  /\ call.name = "onmessage"
  /\ call.args[1] = LineNickInUse \o CRLF \o LineNickInUse \o CRLF \o LineNickInUse
  /\ currentNick = <<"m","e","_","_","_">>
  /\ Len(SelectSeq(out, IsNickWrite)) = 3

\* C9: while connected, a 001 reply emits exactly one registered event and
\* then writes one JOIN per configured auto-join channel, in the configured
\* order.
C9_WelcomeAutoJoin ==
  [][(call'.name = "onmessage" /\ Connected
        /\ call'.args[1] \in {LineWelcome, LineWelcome \o CRLF}) =>
       SelectSeq(out', NotRaw) =
         <<Emit("registered", <<>>)>>
         \o [i \in 1..Len(config.channels) |->
               Write(ws, <<"J","O","I","N"," ">> \o config.channels[i] \o CRLF)]
    ]_vars

C9_Witness ==
  /\ call.name = "onmessage"
  /\ call.args[1] = LineWelcome
  /\ Len(config.channels) = 2
  /\ Len(SelectSeq(out, IsWrite)) = 2
  /\ IsRegistered(out[2])

\* C10: every non-empty CRLF-separated line of every buffer is dispatched
\* exactly once and in the order received; empty segments produce nothing.
C10_LinesInOrder ==
  (call.name = "onmessage" /\ Connected) =>
    LET marks == SelectSeq(out, IsMark)
        lines == LinesOf(call.args[1])
    IN  /\ Len(marks) = Len(lines)
        /\ \A i \in 1..Len(marks) :
             IF IsRaw(marks[i]) THEN marks[i].data = lines[i]
             ELSE IsPingLine(lines[i])
        /\ lines = <<>> => out = <<>>

NotPingLine(l) == ~IsPingLine(l)

C12_TransportPerConnect ==
  [][(call'.name = "connect") <=> (Len(sockets') = Len(sockets) + 1)]_vars

\* C12: no signal and no command other than connect() creates a transport,
\* in particular not a close or an error signal; a connect() call creates
\* exactly one and makes it the handle, unless new WebSocket() throws, in
\* which case it creates none and emits error 'Connection Failed'.
C12_OnlyConnectOpens ==
  [][/\ Len(sockets') # Len(sockets) =>
          call'.name = "connect" /\ Len(sockets') = Len(sockets) + 1
     /\ call'.name = "connect" =>
          IF config.hostOk
          THEN /\ Len(sockets') = Len(sockets) + 1
               /\ ws' = Len(sockets')
               /\ sockets'[ws'].readyState = "CONNECTING"
               /\ out' = <<Emit("status", <<"c","o","n","n","e","c","t","i","n","g">>)>>
          ELSE /\ sockets' = sockets
               /\ ws' = ws
               /\ out' = <<Emit("status", <<"c","o","n","n","e","c","t","i","n","g">>),
                           Emit("error", <<"C","o","n","n","e","c","t","i","o","n"," ","F","a","i","l","e","d">>)>>
    ]_vars

C12_Witness ==
  /\ call.name \in {"onclose", "onerror"}
  /\ Len(sockets) = 1
  /\ sockets[1].readyState = "CLOSED"

\* the characters of a parsed line: those of the input and their upper case
ParsedChars == LineChars \cup {"A", "B"}

\* C13: parse never fails: for every input string it returns a record with a
\* string prefix, a string command and a list of string params.
C13_ParseTotal ==
  call.name = "parse" =>
    /\ DOMAIN ret = {"prefix", "command", "params"}
    /\ ret.prefix \in Seq(ParsedChars)
    /\ ret.command \in Seq(ParsedChars)
    /\ ret.params \in Seq(Seq(ParsedChars))

C13_Witness ==
  /\ call.name = "parse"
  /\ call.args[1] = <<":"," ">>
  /\ ret = [prefix |-> <<>>, command |-> <<>>, params |-> <<>>]

\* the position of the first space of l from position i on, Len(l) + 1 when
\* there is none
SpaceFrom(l, i) ==
  LET sp == {k \in i..Len(l) : l[k] = " "}
  IN  IF sp = {} THEN Len(l) + 1 ELSE CHOOSE k \in sp : \A j \in sp : k <= j

UpperSpec(c) == CASE c = "a" -> "A" [] c = "b" -> "B" [] OTHER -> c

\* C14: for a line that does not begin with ':' the prefix is empty and the
\* command is the upper-cased first space-delimited token, the whole line
\* when it has no space.
C14_CommandIsFirstToken ==
  (call.name = "parse" /\ ~startsWith(call.args[1], <<":">>)) =>
    LET l == call.args[1]
    IN  /\ ret.prefix = <<>>
        /\ ret.command = [i \in 1..(SpaceFrom(l, 1) - 1) |-> UpperSpec(l[i])]

C14_Witness ==
  /\ call.name = "parse"
  /\ call.args[1] = <<"a","b"," ","a"," ","b">>
  /\ ret.prefix = <<>>
  /\ ret.command = <<"A","B">>

\* where the parameters of l begin: after the command, which follows the
\* prefix when l begins with ':' and has a space
ParamStart(l) ==
  LET cmdStart == IF startsWith(l, <<":">>) /\ SpaceFrom(l, 1) <= Len(l)
                  THEN SpaceFrom(l, 1) + 1 ELSE 1
  IN  SpaceFrom(l, cmdStart) + 1

\* the parameter tokens of l that begin with ':'
TrailingMarks(l) ==
  {i \in ParamStart(l)..Len(l) :
     l[i] = ":" /\ (i = ParamStart(l) \/ l[i - 1] = " ")}

NoSpace(p) == \A k \in 1..Len(p) : p[k] # " "

\* C15: the first parameter token that begins with ':' ends the scan: the
\* last parameter is the rest of the line after that ':', verbatim, nothing
\* follows it, and every parameter before it has no space.
C15_TrailingParameter ==
  call.name = "parse" =>
    LET l == call.args[1]
        n == Len(ret.params)
    IN  IF TrailingMarks(l) = {}
        THEN \A i \in 1..n : NoSpace(ret.params[i])
        ELSE LET m == CHOOSE i \in TrailingMarks(l) :
                        \A j \in TrailingMarks(l) : i <= j
             IN  /\ n = 1 + Cardinality({k \in ParamStart(l)..(m - 1) : l[k] = " "})
                 /\ ret.params[n] = SubSeq(l, m + 1, Len(l))
                 /\ \A i \in 1..(n - 1) : NoSpace(ret.params[i])

C15_Witness ==
  /\ call.name = "parse"
  /\ call.args[1] = <<"a"," ","b"," ",":",":">>
  /\ ret.params = <<<<"b">>, <<":">>>>

\* C16: the line written by kick(channel, nick, reason) or by
\* sendMessage(target, text) parses back to the verb as command and to the
\* arguments, in order, as parameters (an omitted reason is the empty string).
C16_BuilderRoundTrip ==
  /\ call.name = "kick" =>
       /\ ret.command = <<"K","I","C","K">>
       /\ ret.params = <<call.args[1], call.args[2],
                         IF call.args[3] = Undefined THEN <<>> ELSE call.args[3]>>
  /\ call.name = "sendMessage" =>
       /\ ret.command = <<"P","R","I","V","M","S","G">>
       /\ ret.params = call.args

C16_Witness ==
  /\ call.name = "kick"
  /\ call.args = <<<<"#","a">>, <<"b",":","c">>, <<"a"," ",":","b"," ","c">>>>
  /\ out = <<Write(1, <<"K","I","C","K"," ","#","a"," ","b",":","c"," ",":","a"," ",":","b"," ","c">> \o CRLF)>>
  /\ ret.params = call.args

IsRender == call.name = "parseContentToHtml"

Tags == {<<"<","b",">">>, <<"<","/","b",">">>, <<"<","i",">">>, <<"<","/","i",">">>, <<"<","u",">">>, <<"<","/","u",">">>}

\* the entity that stands for each unsafe character
Entity(c) ==
  CASE c = "&"  -> <<"&","a","m","p",";">>
    [] c = "<"  -> <<"&","l","t",";">>
    [] c = ">"  -> <<"&","g","t",";">>
    [] c = "\"" -> <<"&","q","u","o","t",";">>
    [] c = "'"  -> <<"&","#","0","3","9",";">>

Malformed == <<"malformed">>

\* reading an output from position i: tags are dropped, an entity gives its
\* character, a plain character gives itself; Malformed when an unsafe
\* character or a control code stands on its own
RECURSIVE Decode(_, _)
Decode(o, i) ==
  IF i > Len(o) THEN <<>>
  ELSE LET tags == {t \in Tags : At(o, t, i)}
           ents == {c \in UnsafeChars : At(o, Entity(c), i)}
           rest(n, c) == LET r == Decode(o, i + n)
                         IN  IF r = Malformed THEN Malformed ELSE c \o r
       IN  IF tags # {} THEN rest(Len(CHOOSE t \in tags : TRUE), <<>>)
           ELSE IF ents # {}
           THEN LET c == CHOOSE c \in ents : TRUE IN rest(Len(Entity(c)), <<c>>)
           ELSE IF o[i] \in UnsafeChars \cup ControlCodes THEN Malformed
           ELSE rest(1, <<o[i]>>)

NotControl(c) == c \notin ControlCodes

\* C17: in the output every unsafe character of the input appears only as
\* its entity, in input order; raw '<' and '>' belong to the six tags only;
\* no control code appears; other characters pass through.
C17_UnsafeEscaped ==
  IsRender => Decode(ret, 1) = SelectSeq(call.args[1], NotControl)

C17_Witness ==
  /\ IsRender
  /\ call.args[1] = <<"<", x02, "\"", "&">>
  /\ ret = <<"&","l","t",";","<","b",">","&","q","u","o","t",";","&","a","m","p",";","<","/","b",">">>

\* the tags of an output from position i, in order: kind and direction
RECURSIVE TagsFrom(_, _)
TagsFrom(o, i) ==
  IF i > Len(o) THEN <<>>
  ELSE IF o[i] = "<" /\ i + 1 <= Len(o) /\ o[i + 1] # "/"
       THEN <<[kind |-> o[i + 1], open |-> TRUE]>> \o TagsFrom(o, i + 1)
  ELSE IF o[i] = "<" /\ i + 2 <= Len(o)
       THEN <<[kind |-> o[i + 2], open |-> FALSE]>> \o TagsFrom(o, i + 1)
  ELSE TagsFrom(o, i + 1)

Count(tags, n, kind, open) ==
  Cardinality({j \in 1..n : tags[j].kind = kind /\ tags[j].open = open})

\* the number of codes c in the text after its last Reset
SinceReset(text, c) ==
  Cardinality({j \in 1..Len(text) :
                 /\ text[j] = c
                 /\ \A k \in (j + 1)..Len(text) : text[k] # x0F})

OpenAtEnd(text, c) == SinceReset(text, c) % 2 = 1

\* C18: per kind the output has as many closing as opening tags and no
\* prefix has more closes than opens; the toggles open at the end of the
\* input are closed at the end of the output in the order b, i, u.
C18_BalancedPerKind ==
  IsRender =>
    LET text == call.args[1]
        tags == TagsFrom(ret, 1)
        tail == (IF OpenAtEnd(text, x02) THEN <<"<","/","b",">">> ELSE <<>>)
                  \o (IF OpenAtEnd(text, x1D) THEN <<"<","/","i",">">> ELSE <<>>)
                  \o (IF OpenAtEnd(text, x1F) THEN <<"<","/","u",">">> ELSE <<>>)
    IN  /\ \A kind \in {"b", "i", "u"} :
             /\ \A n \in 0..Len(tags) :
                  Count(tags, n, kind, FALSE) <= Count(tags, n, kind, TRUE)
             /\ Count(tags, Len(tags), kind, FALSE) = Count(tags, Len(tags), kind, TRUE)
        /\ Len(ret) >= Len(tail)
        /\ SubSeq(ret, Len(ret) - Len(tail) + 1, Len(ret)) = tail

C18_Witness ==
  /\ IsRender
  /\ call.args[1] = <<x1F, x1D, x02, "a">>
  /\ ret = <<"<","u",">","<","i",">","<","b",">","a","<","/","b",">","<","/","i",">","<","/","u",">">>

\* the tags still open after the given tags, innermost last; Malformed when
\* a closing tag does not close the innermost open tag
RECURSIVE Nest(_, _)
Nest(tags, stack) ==
  IF tags = <<>> THEN stack
  ELSE IF Head(tags).open THEN Nest(Tail(tags), Append(stack, Head(tags).kind))
  ELSE IF stack # <<>> /\ stack[Len(stack)] = Head(tags).kind
       THEN Nest(Tail(tags), SubSeq(stack, 1, Len(stack) - 1))
  ELSE Malformed

\* C19: the output is properly nested: every closing tag closes the most
\* recently opened tag that is still open, and nothing stays open.
C19_ProperlyNested ==
  IsRender => Nest(TagsFrom(ret, 1), <<>>) = <<>>

IsSafeText(text) ==
  \A j \in 1..Len(text) : text[j] \notin ControlCodes \cup UnsafeChars

\* C20: a text with no control code and no unsafe character is returned
\* unchanged, so rendering the result again changes nothing.
C20_SafeTextUnchanged ==
  (IsRender /\ IsSafeText(call.args[1])) =>
    /\ ret = call.args[1]
    /\ parseContentToHtml(ret) = ret

C20_Witness ==
  /\ IsRender
  /\ call.args[1] = <<"a","b","b","a">>
  /\ ret = <<"a","b","b","a">>

IsCallback(o) == o.kind = "callback"

\* the callbacks registered for an event, none when it has no list
ListOf(ls, event) == IF ls[event] = Undefined THEN <<>> ELSE ls[event]

\* C21: on() adds the callback after those already registered for the event
\* and touches no other event; emit(event, data) calls the callbacks
\* registered for that event, each once per registration, in registration
\* order, with the payload, and calls no other; with none registered it
\* calls nothing.
C21_EmitFanOut ==
  [][/\ call'.name = "on" =>
          /\ ListOf(listeners', call'.args[1])
               = Append(ListOf(listeners, call'.args[1]), call'.args[2])
          /\ \A e \in EventNames \ {call'.args[1]} : listeners'[e] = listeners[e]
     /\ call'.name = "emit" =>
          LET cbs == ListOf(listeners, call'.args[1])
          IN  /\ listeners' = listeners
              /\ SelectSeq(out', IsCallback)
                   = [i \in 1..Len(cbs) |-> Callback(cbs[i], call'.args[2])]
     /\ call'.name \notin {"on", "emit"} => listeners' = listeners
    ]_vars

C21_Witness ==
  /\ call.name = "emit"
  /\ call.args = <<"raw", <<"x">>>>
  /\ listeners["raw"] = <<"g", "f">>
  /\ listeners["status"] = <<"f">>
  /\ out = <<Emit("raw", <<"x">>), Callback("g", <<"x">>), Callback("f", <<"x">>)>>

\* C22: signals of an earlier transport do not affect a newer one: the close
\* signal of an earlier transport leaves the handle of the current transport
\* in place, and the open signal of the newest transport writes the whole
\* registration sequence to it.
C22_EarlierSignalsIgnored ==
  [][/\ (call'.name = "onclose" /\ ws # 0 /\ call'.sock < ws) => ws' = ws
     /\ (call'.name = "onopen" /\ call'.sock = Len(sockets) /\ Len(sockets) > 1) =>
          SelectSeq(out', IsWrite) = Registration(call'.sock)
    ]_vars

IsStatus(e, status) == IsEvent(e, "status") /\ e.data = status
Emits(events, status) == \E i \in 1..Len(events) : IsStatus(events[i], status)

\* C23: the status events follow Idle -> Connecting -> Connected ->
\* Disconnected: 'connecting' is emitted by connect() only, 'connected' only
\* while the phase is Connecting, 'disconnected' only while it is Connecting
\* or Connected.
C23_PhaseMachine ==
  [][/\ Emits(out', <<"c","o","n","n","e","c","t","i","n","g">>) => call'.name = "connect"
     /\ Emits(out', <<"c","o","n","n","e","c","t","e","d">>) => phase = "Connecting"
     /\ Emits(out', <<"d","i","s","c","o","n","n","e","c","t","e","d">>) => phase \in {"Connecting", "Connected"}
    ]_vars

\* C24: while the transport of the session is open, currentNick is the
\* nickname of the last NICK command written to it.
C24_NickMatchesWire == Connected => wire = currentNick

C24_Witness ==
  /\ Connected
  /\ ws = 2
  /\ call.name = "onmessage"
  /\ call.sock = 1
  /\ call.args[1] = LineNickInUse
  /\ currentNick # config.nick
  /\ wire = currentNick

IsQuitWrite(e, t) ==
  /\ IsWrite(e)
  /\ e.to = t
  /\ startsWith(e.data, <<"Q","U","I","T">>)
  /\ SubSeq(e.data, Len(e.data) - 1, Len(e.data)) = CRLF
  /\ e.data[5] \in {" ", "\r"}

\* C25: when connected, disconnect() writes one QUIT line to the transport
\* and requests its close, emitting nothing; with no transport it writes
\* nothing, emits nothing and changes no state; status 'disconnected' is
\* emitted by the close signal only.
C25_DisconnectQuits ==
  [][/\ (call'.name = "disconnect" /\ Connected) =>
          /\ Len(out') = 1
          /\ IsQuitWrite(out'[1], ws)
          /\ sockets' = [sockets EXCEPT ![ws].readyState = "CLOSING"]
          /\ ~threw'
          /\ UNCHANGED <<config, currentNick, ws, listeners>>
     /\ (call'.name = "disconnect" /\ ws = 0) =>
          /\ out' = <<>>
          /\ ~threw'
          /\ UNCHANGED <<config, currentNick, ws, sockets, listeners>>
     /\ Emits(out', <<"d","i","s","c","o","n","n","e","c","t","e","d">>) => call'.name = "onclose"
    ]_vars

C25_Witness ==
  /\ call.name = "disconnect"
  /\ ws = 1
  /\ sockets[1].readyState = "CLOSING"
  /\ out = <<Write(1, <<"Q","U","I","T"," ",":","W","e","b"," ","C","l","i","e","n","t"," ","D","i","s","c","o","n","n","e","c","t","i","n","g">> \o CRLF)>>

C25_WitnessNoTransport ==
  /\ call.name = "disconnect"
  /\ ws = 0
  /\ Len(sockets) = 1
  /\ out = <<>>

\* the lines of a buffer that are followed by their delimiter
TerminatedLines(d) == {s \in LineStarts(d) : SegEnd(d, s) < Len(d)}

\* C26: a line is dispatched once it is complete: what follows the last
\* delimiter of a message event is the first piece of a line whose rest
\* comes with the next event, so the event dispatches the terminated lines
\* only, and the stream yields the same events and writes however it is cut.
C26_PartialLineWaits ==
  call.name = "onmessage" =>
    Len(SelectSeq(out, IsMark)) <= Cardinality(TerminatedLines(call.args[1]))

\* C27: a PART line emits a part event with the acting nickname, the channel
\* and the reason of the line; a QUIT line emits a quit event with the
\* acting nickname and the reason.
C27_PartQuitCarryReason ==
  call.name = "onmessage" =>
    /\ call.args[1] = LinePart =>
         out = <<Emit("raw", LinePart),
                 Emit("part", [nick |-> <<"b","o","b">>, channel |-> <<"#","a">>,
                               reason |-> <<"b","y","e">>])>>
    /\ call.args[1] = LineQuit =>
         out = <<Emit("raw", LineQuit),
                 Emit("quit", [nick |-> <<"b","o","b">>, reason |-> <<"g","o","n","e">>])>>

\* C28: every write is one command line followed by one CRLF: the data ends
\* with CRLF and has no CR or LF before it.
C28_OneLinePerWrite ==
  \A i \in 1..Len(out) :
    IsWrite(out[i]) =>
      LET d == out[i].data
      IN  /\ Len(d) >= 2
          /\ SubSeq(d, Len(d) - 1, Len(d)) = CRLF
          /\ \A k \in 1..(Len(d) - 2) : d[k] \notin {"\r", "\n"}

\* C29: currentNick starts as the configured nickname and is changed only by
\* changeNick() and by the handling of a 433 reply; every other inbound
\* line, every transport signal and every other builder leaves it unchanged.
C29_NickFrame ==
  /\ currentNick = config.nick
  /\ [][currentNick' # currentNick =>
          \/ call'.name = "changeNick" /\ currentNick' = call'.args[1]
          \/ /\ call'.name = "onmessage"
             /\ \E k \in 1..Len(LinesOf(call'.args[1])) :
                  LinesOf(call'.args[1])[k] = LineNickInUse
       ]_vars

C29_Witness ==
  /\ call.name = "onmessage"
  /\ call.args[1] = LineNick
  /\ out = <<Emit("raw", LineNick)>>
  /\ currentNick = <<"m","e">>

IsMode(e) == IsEvent(e, "mode")

\* the MODE lines of the inbound data with the payload of their mode event,
\* none for a line whose first parameter is not a channel
ModeCases ==
  {<<LineMode, <<[channel |-> <<"#","a">>, actor |-> <<"o","p">>, modes |-> <<"+","o">>,
                  args |-> <<<<"b","o","b">>>>]>> >>,
   <<LineModeMany, <<[channel |-> <<"#","a">>, actor |-> <<"o","p">>, modes |-> <<"+","o","v">>,
                      args |-> <<<<"b","o","b">>, <<"a","l">>>>]>> >>,
   <<LineUserMode, <<>> >>,
   <<LineModeBare, <<>> >>}

\* C30: a MODE line emits a mode event exactly when its first parameter
\* begins with '#', with channel, actor, modes and the remaining parameters
\* as args; a MODE line for a nickname emits the raw event only; no other
\* line emits a mode event.
C30_ModeOnlyForChannels ==
  call.name = "onmessage" =>
    /\ \A c \in ModeCases :
         call.args[1] \in {c[1], c[1] \o CRLF} =>
           out = <<Emit("raw", c[1])>>
                   \o [i \in 1..Len(c[2]) |-> Emit("mode", c[2][i])]
    /\ Len(SelectSeq(out, IsMode))
         <= Cardinality({k \in 1..Len(LinesOf(call.args[1])) :
                           LinesOf(call.args[1])[k] \in {LineMode, LineModeMany}})

C30_Witness ==
  /\ call.name = "onmessage"
  /\ call.args[1] = LineModeMany
  /\ Len(SelectSeq(out, IsMode)) = 1
  /\ out[2].data.args = <<<<"b","o","b">>, <<"a","l">>>>

C30_WitnessUserMode ==
  /\ call.name = "onmessage"
  /\ call.args[1] = LineUserMode
  /\ out = <<Emit("raw", LineUserMode)>>

IsPrivmsg(e) == IsEvent(e, "privmsg")

\* C31: when connected, sendMessage(target, text) writes the one line
\* 'PRIVMSG <target> :<text>' and emits one privmsg event with that target,
\* the text as content, the current nickname as sender and the self flag;
\* any other privmsg event comes from an inbound line.
C31_SendMessageEchoesLocally ==
  [][/\ (call'.name = "sendMessage" /\ Connected) =>
          /\ out' = <<Write(ws, <<"P","R","I","V","M","S","G"," ">> \o call'.args[1] \o <<" ",":">>
                                  \o call'.args[2] \o CRLF),
                      Emit("privmsg", [target |-> call'.args[1],
                                       sender |-> currentNick,
                                       content |-> call'.args[2],
                                       isSelf |-> TRUE])>>
          /\ ~threw'
          /\ UNCHANGED <<config, currentNick, ws, sockets, listeners>>
     /\ (\E i \in 1..Len(out') : IsPrivmsg(out'[i])) =>
          call'.name \in {"sendMessage", "onmessage"}
    ]_vars

C31_Witness ==
  /\ call.name = "sendMessage"
  /\ Connected
  /\ currentNick = <<"n","e","o">>
  /\ out = <<Write(ws, <<"P","R","I","V","M","S","G"," ","#","a"," ",":","h","i"," ","a","l","l">> \o CRLF),
             Emit("privmsg", [target |-> <<"#","a">>, sender |-> <<"n","e","o">>,
                              content |-> <<"h","i"," ","a","l","l">>, isSelf |-> TRUE])>>

\* the part of an origin before its first '!', all of it when it has none
NickOf(origin) ==
  LET marks == {i \in 1..Len(origin) : origin[i] = "!"}
  IN  IF marks = {} THEN origin
      ELSE SubSeq(origin, 1, (CHOOSE i \in marks : \A j \in marks : i <= j) - 1)

\* the nickname an event names as its actor
ActorOf(e) ==
  IF e.event \in {"join", "part", "quit"} THEN e.data.nick
  ELSE IF e.event \in {"kick", "mode"} THEN e.data.actor
  ELSE e.data.sender

\* C32: the nickname in a join event, and in every other event that names an
\* actor, is the origin up to its first '!', the whole origin when it has
\* none; the channel of the join event is the first parameter of the line.
C32_NickFromOrigin ==
  call.name = "onmessage" =>
    /\ \A origin \in Origins :
         /\ call.args[1] = NotificationLine(origin, <<"J","O","I","N">>) =>
              out = <<Emit("raw", call.args[1]),
                      Emit("join", [nick |-> NickOf(origin), channel |-> <<"#","a">>])>>
         /\ \A verb \in ActorVerbs :
              call.args[1] = NotificationLine(origin, verb) =>
                /\ Len(out) = 2
                /\ ActorOf(out[2]) = NickOf(origin)
    /\ call.args[1] = LineJoinNoOrigin =>
         out = <<Emit("raw", LineJoinNoOrigin),
                 Emit("join", [nick |-> <<>>, channel |-> <<"#","a">>])>>

C32_Witness ==
  /\ call.name = "onmessage"
  /\ call.args[1] = NotificationLine(<<"a","!","b">>, <<"J","O","I","N">>)
  /\ out[2] = Emit("join", [nick |-> <<"a">>, channel |-> <<"#","a">>])

C32_WitnessNoMark ==
  /\ call.name = "onmessage"
  /\ call.args[1] = NotificationLine(<<"a","b">>, <<"K","I","C","K">>)
  /\ out[2].data.actor = <<"a","b">>

\* the pieces of r between its spaces: one more than it has spaces
Pieces(r) ==
  LET sp == {i \in 1..Len(r) : r[i] = " "}
      nth(k) == IF k = 0 THEN 0
                ELSE IF k > Cardinality(sp) THEN Len(r) + 1
                ELSE CHOOSE i \in sp : Cardinality({j \in sp : j < i}) = k - 1
  IN  [k \in 1..(Cardinality(sp) + 1) |-> SubSeq(r, nth(k - 1) + 1, nth(k) - 1)]

\* C33: runs of spaces are not coalesced: the parameters before a trailing
\* parameter are the pieces between the single spaces of the parameter part
\* of the line, so k spaces in a row between two tokens give k-1 empty
\* parameters; only an empty piece at the very end is no parameter.
C33_EmptyParamsKept ==
  call.name = "parse" =>
    LET l == call.args[1]
        marks == TrailingMarks(l)
        m == IF marks = {} THEN Len(l) + 1
             ELSE CHOOSE i \in marks : \A j \in marks : i <= j
        r == SubSeq(l, ParamStart(l), m - 1)
        all == Pieces(r)
        pieces == IF all[Len(all)] = <<>> THEN SubSeq(all, 1, Len(all) - 1) ELSE all
        n == Len(ret.params) - (IF marks = {} THEN 0 ELSE 1)
    IN  SubSeq(ret.params, 1, n) = pieces

C33_Witness ==
  /\ call.name = "parse"
  /\ call.args[1] = <<"a"," ","b"," "," "," ","a">>
  /\ ret.params = <<<<"b">>, <<>>, <<>>, <<"a">>>>

\* C34: a line that begins with ':' and has no space is an origin without a
\* command: parse returns the text after the ':' as prefix, the empty
\* command and no parameters.
C34_OriginWithoutCommand ==
  (call.name = "parse" /\ startsWith(call.args[1], <<":">>)
     /\ NoSpace(call.args[1])) =>
    ret = [prefix |-> SubSeq(call.args[1], 2, Len(call.args[1])),
           command |-> <<>>, params |-> <<>>]

====
